---- MODULE Spec2Model ----
\* Model of convert_stl_to_step.py: a sequential batch driver that lists the
\* STL files of stl_files/, hands each to the CAD library, deletes the sources
\* that converted, and prints a summary.
\*
\* File names are sequences of code points, so that str.lower, str.endswith,
\* os.path.splitext and sorted are computed the way Python computes them.
EXTENDS Integers, Sequences, FiniteSets, TLC

\* ---------------------------------------------------------------- bounds
\* Largest number of entries in stl_files/ when the script starts.
MaxFiles == 3

\* ---------------------------------------------------------------- names
cube_stl   == <<99,117,98,101,46,115,116,108>>          \* "cube.stl"
sphere_STL == <<115,112,104,101,114,101,46,83,84,76>>   \* "sphere.STL"
readme_txt == <<114,101,97,100,109,101,46,116,120,116>> \* "readme.txt"
cube_STL   == <<99,117,98,101,46,83,84,76>>             \* "cube.STL"
dot_stl    == <<46,115,116,108>>                        \* ".stl"
dir_stl    == <<100,105,114,46,115,116,108>>            \* "dir.stl" (a directory)
stl_nodot  == <<115,116,108>>                           \* "stl"
Zed_stl    == <<90,101,100,46,115,116,108>>             \* "Zed.stl"
a_stl_txt  == <<97,46,115,116,108,46,116,120,116>>      \* "a.stl.txt"
cube_step  == <<99,117,98,101,46,115,116,101,112>>      \* "cube.step"

\* The entry names stl_files/ may hold when the script starts.
Universe == { cube_stl, sphere_STL, readme_txt, cube_STL, dot_stl,
              dir_stl, stl_nodot, Zed_stl, a_stl_txt }

\* The entries that are directories, not regular files.
DirNames == { dir_stl }

StlSuffix  == <<46,115,116,108>>       \* '.stl'
StepSuffix == <<46,115,116,101,112>>   \* '.step'

Range(s) == { s[k] : k \in 1..Len(s) }

\* ---------------------------------------------------------------- strings
\* str.lower on the ASCII range
LowerChar(c) == IF c >= 65 /\ c <= 90 THEN c + 32 ELSE c

lower(f) == [k \in 1..Len(f) |-> LowerChar(f[k])]

endswith(f, suffix) ==
    /\ Len(f) >= Len(suffix)
    /\ SubSeq(f, Len(f) - Len(suffix) + 1, Len(f)) = suffix

\* str.rfind('.'): the last index of a dot, 0 when there is none
rfind_dot(f) ==
    LET D == { k \in 1..Len(f) : f[k] = 46 }
    IN IF D = {} THEN 0 ELSE CHOOSE k \in D : \A m \in D : m <= k

\* os.path.splitext: the extension starts at the last dot, unless only dots
\* precede it (leading dots belong to the root).
splitext(f) ==
    LET d == rfind_dot(f)
    IN IF d > 0 /\ \E k \in 1..(d - 1) : f[k] # 46
       THEN << SubSeq(f, 1, d - 1), SubSeq(f, d, Len(f)) >>
       ELSE << f, << >> >>

\* Python's ordering of str: by code point, a proper prefix first.
LexLess(a, b) ==
    \/ /\ Len(a) < Len(b)
       /\ SubSeq(b, 1, Len(a)) = a
    \/ \E k \in 1..Len(a) :
          /\ k <= Len(b)
          /\ SubSeq(a, 1, k - 1) = SubSeq(b, 1, k - 1)
          /\ a[k] < b[k]

RECURSIVE sorted(_)
sorted(S) ==
    IF S = {} THEN << >>
    ELSE LET m == CHOOSE x \in S : \A y \in S : x = y \/ LexLess(x, y)
         IN << m >> \o sorted(S \ {m})

\* ---------------------------------------------------------------- functions
\* the filter of the list comprehension in get_stl_files
is_stl_nocase(f) == endswith(f, StlSuffix)

is_stl(f) == endswith(lower(f), StlSuffix)

\* get_stl_files over a directory that exists or not and holds `entries`
get_stl_files(exists, entries) ==
    IF ~exists THEN << >>
    ELSE sorted({ f \in entries : is_stl(f) })

\* base_name and the file name of step_path
step_name(stl_filename) == splitext(stl_filename)[1] \o StepSuffix

\* The library calls of convert_stl_to_step, in the order they are made.
LibSteps == << "import", "newDocument", "Mesh.insert", "Objects",
               "makeShapeFromMesh", "removeSplitter", "Solid",
               "exportStep", "closeDocument" >>

Pos(step) == CHOOSE k \in 1..Len(LibSteps) : LibSteps[k] = step

\* 0 = no call raises
RaiseAt == 0..Len(LibSteps)

\* `except Exception`: every exception a library call raises is caught
caught_before_export(raiseAt) == raiseAt < Pos("exportStep")

caught(raiseAt) == TRUE

\* One call of convert_stl_to_step in which library call number raiseAt
\* raises (0: none does). A raising exportStep may or may not leave a file
\* behind (partial). ret is the return value, wrote says whether step_path
\* was written, propagated whether the exception left the function.
convert_no_export(stl_filename, raiseAt, partial) ==
    [ ret        |-> raiseAt = 0,
      wrote      |-> FALSE,
      path       |-> step_name(stl_filename),
      propagated |-> raiseAt # 0 /\ ~caught(raiseAt) ]

convert_stl_to_step(stl_filename, raiseAt, partial) ==
    [ ret        |-> raiseAt = 0,
      wrote      |-> \/ raiseAt = 0
                     \/ raiseAt > Pos("exportStep")
                     \/ raiseAt = Pos("exportStep") /\ partial,
      path       |-> step_name(stl_filename),
      propagated |-> raiseAt # 0 /\ ~caught(raiseAt) ]

\* ---------------------------------------------------------------- state
VARIABLES
    stlDirExists,    \* STL_DIR exists
    stlDir,          \* entry names of STL_DIR
    stepDir,         \* entry names of STEP_DIR
    pc,              \* position in main()
    stl_files,       \* main: stl_files
    i,               \* index of the conversion loop
    successful,      \* main: successful
    failed,          \* main: failed
    files_to_remove, \* main: files_to_remove
    j,               \* index of the removal loop
    report,          \* what the run printed as its outcome
    attempted,       \* history: arguments of the convert_stl_to_step calls
    results,         \* history: their return values
    created,         \* history: <<stl file, step file>> of the files written
                     \* to STEP_DIR in this run
    rmAttempted,     \* history: arguments of the os.remove calls
    warnings,        \* history: names of the "Warning: Could not remove" lines
    dir0             \* history: entries of STL_DIR when the script started

vars == << stlDirExists, stlDir, stepDir, pc, stl_files, i, successful, failed,
           files_to_remove, j, report, attempted, results, created,
           rmAttempted, warnings, dir0 >>

NoReport == [kind |-> "none", successful |-> 0, failed |-> 0]

Init ==
    /\ stlDirExists \in BOOLEAN
    /\ stlDir \in { S \in SUBSET Universe :
                      /\ Cardinality(S) <= MaxFiles
                      /\ (~stlDirExists => S = {}) }
    /\ stepDir \in { {}, {cube_step} }
    /\ pc = "setup"
    /\ stl_files = << >>
    /\ i = 1
    /\ successful = 0
    /\ failed = 0
    /\ files_to_remove = << >>
    /\ j = 1
    /\ report = NoReport
    /\ attempted = << >>
    /\ results = << >>
    /\ created = {}
    /\ rmAttempted = << >>
    /\ warnings = << >>
    /\ dir0 = stlDir

\* ---------------------------------------------------------------- main()
\* `if not stl_files`
no_files_never(files) == FALSE

no_files(files) == files = << >>

\* where main() continues once the conversion loop stands at index k
pcLoop(k, files, to_remove) ==
    IF k <= Len(files) THEN "convert"
    ELSE IF to_remove # << >> THEN "remove"
    ELSE "summary"

\* the conversion loop after the call for index k returned ok
pcAfterConvert_break(ok, k, files, to_remove) ==
    IF ok THEN pcLoop(k + 1, files, to_remove)
    ELSE pcLoop(Len(files) + 1, files, to_remove)

pcAfterConvert(ok, k, files, to_remove) == pcLoop(k + 1, files, to_remove)

\* the counters after a call returned ok
count_result_drop(ok, s, f) ==
    IF ok THEN [successful |-> s + 1, failed |-> f]
    ELSE [successful |-> s, failed |-> f]

count_result(ok, s, f) ==
    IF ok THEN [successful |-> s + 1, failed |-> f]
    ELSE [successful |-> s, failed |-> f + 1]

\* files_to_remove after a call for stl_file returned ok
to_remove_always(ok, to_remove, stl_file) == Append(to_remove, stl_file)

to_remove_after(ok, to_remove, stl_file) ==
    IF ok THEN Append(to_remove, stl_file) ELSE to_remove

\* `except Exception` around os.remove: the removal loop goes on
pcAfterRemove_raise(ok, k, to_remove) ==
    IF ~ok THEN "crashed"
    ELSE IF k + 1 <= Len(to_remove) THEN "remove" ELSE "summary"

pcAfterRemove(ok, k, to_remove) ==
    IF k + 1 <= Len(to_remove) THEN "remove" ELSE "summary"

\* lines 103-108: the banner and setup_directories(); os.makedirs may raise,
\* and nothing catches it.
Setup ==
    /\ pc = "setup"
    /\ \E ok \in BOOLEAN :
         IF ok
         THEN /\ stlDirExists' = TRUE
              /\ pc' = "discover"
         ELSE /\ pc' = "crashed"
              /\ UNCHANGED stlDirExists
    /\ UNCHANGED << stlDir, stepDir, stl_files, i, successful, failed,
                    files_to_remove, j, report, attempted, results, created,
                    rmAttempted, warnings, dir0 >>

\* lines 111-127: get_stl_files(), the early return of an empty run, the
\* initialisation of the counters; os.listdir may raise, uncaught.
Discover ==
    /\ pc = "discover"
    /\ \E ok \in BOOLEAN :
         IF ok
         THEN LET files == get_stl_files(stlDirExists, stlDir)
              IN /\ stl_files' = files
                 /\ IF no_files(files)
                    THEN /\ report' = [kind |-> "nofiles", successful |-> 0,
                                       failed |-> 0]
                         /\ pc' = "done"
                    ELSE /\ report' = report
                         /\ pc' = pcLoop(1, files, << >>)
         ELSE /\ pc' = "crashed"
              /\ UNCHANGED << stl_files, report >>
    /\ i' = 1
    /\ successful' = 0
    /\ failed' = 0
    /\ files_to_remove' = << >>
    /\ UNCHANGED << stlDirExists, stlDir, stepDir, j, attempted, results,
                    created, rmAttempted, warnings, dir0 >>

\* lines 129-134: one iteration of the conversion loop
Convert ==
    /\ pc = "convert"
    /\ \E raiseAt \in RaiseAt, partial \in BOOLEAN :
         LET stl_file == stl_files[i]
             r == convert_stl_to_step(stl_file, raiseAt, partial)
             c == count_result(r.ret, successful, failed)
             rm == to_remove_after(r.ret, files_to_remove, stl_file)
         IN /\ attempted' = Append(attempted, stl_file)
            /\ stepDir' = IF r.wrote THEN stepDir \cup {r.path} ELSE stepDir
            /\ created' = IF r.wrote THEN created \cup {<< stl_file, r.path >>}
                           ELSE created
            /\ IF r.propagated
               THEN /\ pc' = "crashed"
                    /\ UNCHANGED << results, successful, failed,
                                    files_to_remove, i >>
               ELSE /\ results' = Append(results, r.ret)
                    /\ successful' = c.successful
                    /\ failed' = c.failed
                    /\ files_to_remove' = rm
                    /\ i' = i + 1
                    /\ pc' = pcAfterConvert(r.ret, i, stl_files, rm)
    /\ UNCHANGED << stlDirExists, stlDir, stl_files, j, report, rmAttempted,
                    warnings, dir0 >>

\* lines 138-144: one iteration of the removal loop. os.remove raises on a
\* directory, and may raise on a regular file (permissions, a lock).
Remove ==
    /\ pc = "remove"
    /\ LET stl_file == files_to_remove[j]
       IN \E ok \in (IF stl_file \in DirNames THEN {FALSE} ELSE BOOLEAN) :
            /\ rmAttempted' = Append(rmAttempted, stl_file)
            /\ stlDir' = IF ok THEN stlDir \ {stl_file} ELSE stlDir
            /\ warnings' = IF ok THEN warnings ELSE Append(warnings, stl_file)
            /\ pc' = pcAfterRemove(ok, j, files_to_remove)
    /\ j' = j + 1
    /\ UNCHANGED << stlDirExists, stepDir, stl_files, i, successful, failed,
                    files_to_remove, report, attempted, results, created,
                    dir0 >>

\* lines 146-153: the summary
Summary ==
    /\ pc = "summary"
    /\ report' = [kind |-> "summary", successful |-> successful,
                  failed |-> failed]
    /\ pc' = "done"
    /\ UNCHANGED << stlDirExists, stlDir, stepDir, stl_files, i, successful,
                    failed, files_to_remove, j, attempted, results, created,
                    rmAttempted, warnings, dir0 >>

Next == Setup \/ Discover \/ Convert \/ Remove \/ Summary

Spec == Init /\ [][Next]_vars

\* A sequential script runs on until main() returns or an exception leaves it.
FairSpec == Spec /\ WF_vars(Next)

\* lines 155-156: the script calls main() and ends; an exception that leaves
\* main() ends the interpreter with status 1, a return with status 0.
Terminated == pc \in {"done", "crashed"}

exit_status == IF pc = "crashed" THEN 1 ELSE 0

TypeOK ==
    /\ pc \in {"setup", "discover", "convert", "remove", "summary", "done",
               "crashed"}
    /\ stlDir \subseteq Universe
    /\ successful \in Nat /\ failed \in Nat
    /\ Len(results) = Len(attempted)

\* ---------------------------------------------------------------- claims
\* the calls of this run that returned True / False
Succeeded == { attempted[k] : k \in { m \in 1..Len(results) : results[m] } }

Failed == { attempted[k] : k \in { m \in 1..Len(results) : ~results[m] } }

IsPrefix(s, t) == Len(s) <= Len(t) /\ SubSeq(t, 1, Len(s)) = s

RECURSIVE SucceededSeq(_)
\* the arguments of the first n calls that returned True, in call order
SucceededSeq(n) ==
    IF n = 0 THEN << >>
    ELSE IF results[n] THEN Append(SucceededSeq(n - 1), attempted[n])
    ELSE SucceededSeq(n - 1)

\* C1 as stated: when main() has returned, every file whose conversion
\* returned True has its <base name>.step in the output directory and is
\* gone from the input directory.
C1_AsStated ==
    pc = "done" =>
        \A f \in Succeeded : step_name(f) \in stepDir /\ f \notin stlDir

\* C1 amended: when main() has returned, every file whose conversion returned
\* True has its <base name>.step in the output directory, and it is gone from
\* the input directory exactly when os.remove did not raise for it; a file
\* whose removal raised (a warning line) is still there.
C1_Amended ==
    pc = "done" =>
        \A f \in Succeeded :
            /\ step_name(f) \in stepDir
            /\ << f, step_name(f) >> \in created
            /\ f \in Range(rmAttempted)
            /\ (f \in stlDir <=> f \in Range(warnings))

C1_Witness ==
    /\ pc = "done"
    /\ \E f \in Succeeded : f \notin stlDir /\ step_name(f) \in stepDir
    /\ \E f \in Succeeded : f \in stlDir /\ f \in Range(warnings)

\* C2: when main() has returned, every file whose conversion returned False
\* is still in the input directory and its call wrote no file to the output
\* directory.
C2_AsStated ==
    pc = "done" =>
        \A f \in Failed :
            /\ f \in stlDir
            /\ \A c \in created : c[1] # f

\* C3: the summary's successful + failed equals the number of discovered
\* files, and during the conversion loop successful + failed equals the
\* number of files already attempted.
C3_Counts ==
    /\ report.kind = "summary" =>
          report.successful + report.failed = Len(stl_files)
    /\ pc \in {"convert", "remove", "summary"} =>
          /\ successful + failed = Len(attempted)
          /\ successful = Cardinality({ m \in 1..Len(results) : results[m] })
          /\ Len(attempted) = i - 1

C3_Witness ==
    /\ report.kind = "summary"
    /\ report.successful >= 1
    /\ report.failed >= 1

\* C4 as stated: a run whose discovery is empty reports zero successful and
\* zero failed conversions and deletes nothing.
C4_AsStated ==
    pc = "done" /\ stl_files = << >> =>
        /\ report = [kind |-> "summary", successful |-> 0, failed |-> 0]
        /\ rmAttempted = << >>

\* C4 amended: a run whose discovery is empty prints the "No STL files found"
\* notice and returns without printing any count (no summary), and it makes
\* no conversion call and no deletion.
C4_Amended ==
    pc = "done" /\ stl_files = << >> =>
        /\ report.kind = "nofiles"
        /\ attempted = << >>
        /\ rmAttempted = << >>
        /\ stlDir = dir0
        /\ created = {}

C4_Witness ==
    /\ pc = "done"
    /\ stl_files = << >>
    /\ report.kind = "nofiles"
    /\ dir0 # {}

\* discovery has returned
Discovered == pc \in {"convert", "remove", "summary", "done"}

StrictlySorted(s) ==
    \A k \in 1..Len(s) : \A m \in 1..Len(s) : k < m => LexLess(s[k], s[m])

\* C5 as stated: discovery returns exactly the entries whose extension (as
\* os.path.splitext splits it) is '.stl' up to case, sorted, no duplicates.
C5_AsStated ==
    Discovered =>
        /\ Range(stl_files) =
              { f \in dir0 : lower(splitext(f)[2]) = StlSuffix }
        /\ StrictlySorted(stl_files)

\* C5 amended: discovery returns exactly the entries whose name ends in
\* '.stl' up to case (this includes a name that is only '.stl', which has no
\* extension for os.path.splitext), in ascending code-point order without
\* duplicates; {cube.stl, sphere.STL, readme.txt} yields [cube.stl,
\* sphere.STL].
C5_Amended ==
    Discovered =>
        /\ Range(stl_files) =
              { f \in dir0 :
                  /\ Len(f) >= 4
                  /\ f[Len(f) - 3] = 46
                  /\ f[Len(f) - 2] \in {115, 83}
                  /\ f[Len(f) - 1] \in {116, 84}
                  /\ f[Len(f)] \in {108, 76} }
        /\ StrictlySorted(stl_files)
        /\ (dir0 = {cube_stl, sphere_STL, readme_txt} =>
               stl_files = << cube_stl, sphere_STL >>)

C5_Witness ==
    /\ Discovered
    /\ dir0 = {cube_stl, sphere_STL, readme_txt}
    /\ stl_files = << cube_stl, sphere_STL >>

C6_Safe ==
    /\ IsPrefix(attempted, stl_files)
    /\ Len(results) = Len(attempted)
    /\ (attempted # << >> => pc # "crashed")
    /\ (pc \in {"remove", "summary"} \/ report.kind = "summary" =>
           attempted = stl_files)

\* C6: a library exception never aborts the batch: the calls made are a
\* prefix of the discovered list (each file once, in discovery order, one
\* call finished before the next), no call crashes the run, and a run that
\* has entered the conversion loop goes on to attempt every file, reach the
\* cleanup phase and print the summary.
C6_BatchCompletes ==
    /\ []C6_Safe
    /\ (pc = "convert" ~>
           (report.kind = "summary" /\ attempted = stl_files))

C6_Witness ==
    /\ report.kind = "summary"
    /\ Len(results) >= 2
    /\ ~results[1]
    /\ results[2]

C7_Safe ==
    /\ (warnings # << >> =>
           /\ pc \in {"remove", "summary", "done"}
           /\ successful = Len(files_to_remove)
           /\ successful = Cardinality(Succeeded)
           /\ failed = Len(stl_files) - Len(files_to_remove))
    /\ (pc \in {"summary", "done"} /\ stl_files # << >> =>
           rmAttempted = files_to_remove)
    /\ (report.kind = "summary" =>
           /\ report.successful = Len(files_to_remove)
           /\ report.failed = Len(stl_files) - Len(files_to_remove))

\* C7: a failed deletion is only a warning: it changes neither counter, the
\* rest of the removal list is still attempted, and the summary is printed
\* with the counts of the conversion loop.
C7_RemoveWarning ==
    /\ []C7_Safe
    /\ [][pc = "remove" => successful' = successful /\ failed' = failed]_vars
    /\ (warnings # << >> ~>
           (report.kind = "summary" /\ rmAttempted = files_to_remove))

C7_Witness ==
    /\ report.kind = "summary"
    /\ Len(rmAttempted) >= 2
    /\ rmAttempted[1] \in Range(warnings)
    /\ rmAttempted[2] \notin stlDir

\* C8 as stated: the exit status is 0 whatever happened.
C8_AsStated == Terminated => exit_status = 0

\* C8 amended: the exit status is 0 whenever the directories could be
\* created and listed, whatever the conversions and deletions did; only an
\* exception of os.makedirs or os.listdir, which nothing catches, ends the
\* script with a non-zero status, before any conversion or deletion.
C8_Amended ==
    /\ (Terminated /\ (Discovered \/ attempted # << >>) => exit_status = 0)
    /\ (Terminated /\ exit_status # 0 =>
           /\ attempted = << >>
           /\ rmAttempted = << >>
           /\ report.kind = "none"
           /\ stlDir = dir0)

C8_Witness ==
    /\ Terminated
    /\ exit_status = 0
    /\ report.kind = "summary"
    /\ report.failed >= 1
    /\ warnings # << >>

\* C9: discovery returns regular files only: an entry that is a directory is
\* never returned, converted or deleted.
C9_AsStated ==
    /\ Range(stl_files) \cap DirNames = {}
    /\ Range(attempted) \cap DirNames = {}
    /\ Range(rmAttempted) \cap DirNames = {}

\* C10: no deletion is attempted before every discovered file has been
\* attempted for conversion; the deletions attempted follow the list of the
\* files whose conversion returned True, once each and in discovery order;
\* a file whose conversion failed and an entry discovery did not return are
\* never deleted.
C10_RemovalFrame ==
    /\ (rmAttempted # << >> => attempted = stl_files)
    /\ (Discovered => files_to_remove = SucceededSeq(Len(results)))
    /\ IsPrefix(rmAttempted, files_to_remove)
    /\ (pc = "done" /\ stl_files # << >> => rmAttempted = files_to_remove)
    /\ StrictlySorted(rmAttempted)
    /\ stlDir \subseteq dir0
    /\ dir0 \ stlDir \subseteq Range(rmAttempted)
    /\ \A f \in dir0 : f \in Failed \/ f \notin Range(stl_files) => f \in stlDir

C10_Witness ==
    /\ pc = "done"
    /\ \E f \in Succeeded : f \notin stlDir
    /\ Failed # {}
    /\ \E f \in dir0 : f \notin Range(stl_files)

====
